---- MODULE Spec2Model ----
(***************************************************************************)
(* Model of dataproxyclient (src/main.go): a command-line client that      *)
(* walks the pages of a result set held by a dataproxy server.  main       *)
(* validates three flags, consumeAllPages loops over consumePage (one HTTP *)
(* POST plus one JSON decode per page) and printConsumption reports.       *)
(*                                                                         *)
(* The client is one thread; the server is the environment.  The server's  *)
(* answer to a POST is a nondeterministic choice (transport error,         *)
(* malformed body, or a JSON document whose fields may be absent).         *)
(***************************************************************************)
EXTENDS Naturals, Sequences, FiniteSets

\* ------------------------------------------------------------------ bounds

\* The server's result set has at most MaxPages pages: its MaxPages-th answer
\* names no further page.
MaxPages == 3
\* A page carries at most MaxRecords records.
MaxRecords == 1
\* A measured duration (t2-t1, t3-t2) is one of 0..MaxDur clock ticks.
MaxDur == 1

\* Tokens the server hands out, and the first tokens a caller passes.
Tokens == {"abc", "xyz"}
FirstTokens == {"", "abc"}
Urls == {"", "http://localhost:8090"}
Hashes == {"", "h1"}
Durations == 0..MaxDur
Row == <<"v">>

\* ------------------------------------------------------------------ state

VARIABLES
    pc,            \* position of the single thread of control
    url, hash, firstToken,          \* the three inputs
    stdout, stderr, exitCode,       \* what the process has written / its exit status
    \* consumeAllPages' locals
    pageCount, recordCounts, totalDurationRequest, totalUnmarshalDuration, nextToken,
    \* consumePage's locals and its five results
    elapsedRequest, page,
    \* the five values main receives from consumeAllPages
    ret,
    \* the network: requests sent and not yet answered, the latest answer
    inflight, reply,
    \* observations of the run
    fetches,       \* POSTs issued so far
    served,        \* answers given by the server so far
    failed,        \* answers that were a transport error or a malformed body
    lastNext,      \* the next token carried by the latest answer
    lastOmitted,   \* the latest answer was a JSON document without meta.next
    emptyAt,       \* index of the first answer that carried an empty next token (0: none)
    decodedLog     \* record count of every page decoded so far, in decode order

vars == <<pc, url, hash, firstToken, stdout, stderr, exitCode,
          pageCount, recordCounts, totalDurationRequest, totalUnmarshalDuration,
          nextToken, elapsedRequest, page, ret, inflight, reply,
          fetches, served, failed, lastNext, lastOmitted, emptyAt, decodedLog>>

\* ------------------------------------------------------------------ data

NoError == "nil"

\* Request (lines 13-16) and its JSON encoding: field Hash goes out as "hash",
\* field Token as "token".
Request(h, t) == [Hash |-> h, Token |-> t]
Marshal(r) == [hash |-> r.Hash, token |-> r.Token]

\* What http.Post (line 58) puts on the wire.
WireRequest(u, jsonData) ==
    [path |-> u \o "/page", contentType |-> "application/json", body |-> jsonData]

\* A response body: malformed, or a JSON document in which meta.next and
\* data.records may each be absent.
MalformedBody ==
    [wellFormed |-> FALSE, hasNext |-> FALSE, next |-> "", hasRecords |-> FALSE, records |-> <<>>]
JsonBodies ==
    { [wellFormed |-> TRUE, hasNext |-> TRUE, next |-> t, hasRecords |-> TRUE,
       records |-> [i \in 1..n |-> Row]] : t \in Tokens \cup {""}, n \in 0..MaxRecords }
    \cup
    { [wellFormed |-> TRUE, hasNext |-> FALSE, next |-> "", hasRecords |-> TRUE,
       records |-> [i \in 1..n |-> Row]] : n \in 0..MaxRecords }
    \cup
    { [wellFormed |-> TRUE, hasNext |-> TRUE, next |-> t, hasRecords |-> FALSE,
       records |-> <<>>] : t \in Tokens \cup {""} }
Bodies == JsonBodies \cup {MalformedBody}

NoReply == [kind |-> "none", err |-> NoError, body |-> MalformedBody]
TransportFailure == [kind |-> "neterr", err |-> "connection refused", body |-> MalformedBody]
HttpReply(b) == [kind |-> "http", err |-> NoError, body |-> b]
Replies == {TransportFailure} \cup { HttpReply(b) : b \in Bodies }

\* The next token a reply carries on the wire (none when the field is absent).
SentNext(r) == IF r.kind = "http" /\ r.body.wellFormed /\ r.body.hasNext THEN r.body.next ELSE ""
IsFailure(r) == r.kind = "neterr" \/ (r.kind = "http" /\ ~r.body.wellFormed)

\* json.NewDecoder(resp.Body).Decode(&result) (lines 65-66) into a ResultSet
\* (lines 33-40): an absent field leaves the Go zero value.
Decode(b) ==
    IF ~b.wellFormed
    THEN [err |-> "invalid character", result |-> [Meta |-> [NextToken |-> ""], Data |-> [Records |-> <<>>]]]
    ELSE [err |-> NoError,
          result |-> [Meta |-> [NextToken |-> IF b.hasNext THEN b.next ELSE ""],
                      Data |-> [Records |-> IF b.hasRecords THEN b.records ELSE <<>>]]]

\* The five results of consumePage.
PageResult(tok, n, dReq, dUnm, e) ==
    [token |-> tok, recordCount |-> n, requestDuration |-> dReq, unMarshalDuration |-> dUnm, err |-> e]
NoPage == PageResult("", 0, 0, 0, NoError)

\* The five results of consumeAllPages.
AllResult(n, counts, dReq, dUnm, e) ==
    [pageCount |-> n, recordCounts |-> counts, totalDurationRequest |-> dReq,
     totalUnmarshalDuration |-> dUnm, err |-> e]
NoResult == AllResult(0, <<>>, 0, 0, NoError)

\* ------------------------------------------------------------------ initial states

Observers ==
    /\ inflight = <<>>
    /\ reply = NoReply
    /\ fetches = 0
    /\ served = 0
    /\ failed = 0
    /\ lastNext = ""
    /\ lastOmitted = FALSE
    /\ emptyAt = 0
    /\ decodedLog = <<>>

\* The process has started; the flags are whatever the command line gave.
Init ==
    /\ pc = "main"
    /\ url \in Urls
    /\ hash \in Hashes
    /\ firstToken \in FirstTokens
    /\ stdout = <<>>
    /\ stderr = <<>>
    /\ exitCode = 0
    /\ pageCount = 0
    /\ recordCounts = <<>>
    /\ totalDurationRequest = 0
    /\ totalUnmarshalDuration = 0
    /\ nextToken = ""
    /\ elapsedRequest = 0
    /\ page = NoPage
    /\ ret = NoResult
    /\ Observers

\* consumeAllPages called directly with any three strings: the state after
\* lines 80-84.
InitConsume ==
    /\ pc = "loop"
    /\ url \in Urls
    /\ hash \in Hashes
    /\ firstToken \in FirstTokens
    /\ stdout = <<>>
    /\ stderr = <<>>
    /\ exitCode = 0
    /\ pageCount = 0
    /\ recordCounts = <<>>
    /\ totalDurationRequest = 0
    /\ totalUnmarshalDuration = 0
    /\ nextToken = firstToken
    /\ elapsedRequest = 0
    /\ page = NoPage
    /\ ret = NoResult
    /\ Observers

\* ------------------------------------------------------------------ main

\* ValidArguments with the three tests joined the wrong way round.
ValidArgumentsAny == Len(url) # 0 \/ Len(hash) # 0 \/ Len(firstToken) # 0

ValidArguments == Len(url) # 0 /\ Len(hash) # 0 /\ Len(firstToken) # 0

\* Lines 128-130: log.Fatal writes the message and exits with status 1.
MainFatal ==
    /\ pc = "main"
    /\ ~ValidArguments
    /\ pc' = "exited"
    /\ stderr' = Append(stderr, "invalid arguments")
    /\ exitCode' = 1
    /\ UNCHANGED <<url, hash, firstToken, stdout, pageCount, recordCounts,
                   totalDurationRequest, totalUnmarshalDuration, nextToken,
                   elapsedRequest, page, ret, inflight, reply,
                   fetches, served, failed, lastNext, lastOmitted, emptyAt, decodedLog>>

\* Line 132 and lines 80-84: main calls consumeAllPages, which sets up its locals.
MainCall ==
    /\ pc = "main"
    /\ ValidArguments
    /\ pc' = "loop"
    /\ pageCount' = 0
    /\ recordCounts' = <<>>
    /\ totalDurationRequest' = 0
    /\ totalUnmarshalDuration' = 0
    /\ nextToken' = firstToken
    /\ UNCHANGED <<url, hash, firstToken, stdout, stderr, exitCode,
                   elapsedRequest, page, ret, inflight, reply,
                   fetches, served, failed, lastNext, lastOmitted, emptyAt, decodedLog>>

\* ------------------------------------------------------------------ consumeAllPages

\* The loop condition as a do-while: the first page is fetched unconditionally.
LoopConditionDoWhile == pageCount = 0 \/ Len(nextToken) > 0

\* The loop condition with >= for >.
LoopConditionNonNegative == Len(nextToken) >= 0

\* The loop condition with a cap on the number of pages.
LoopConditionCapped == Len(nextToken) > 0 /\ pageCount < 2

\* Line 85: the loop condition.
LoopCondition == Len(nextToken) > 0

\* Lines 85-86 and 49-58: the loop is entered, consumePage builds the request
\* and http.Post sends it; the thread blocks in http.Post.
IssuePost ==
    /\ pc = "loop"
    /\ LoopCondition
    /\ pc' = "post"
    /\ inflight' = Append(inflight, WireRequest(url, Marshal(Request(hash, nextToken))))
    /\ fetches' = fetches + 1
    /\ UNCHANGED <<url, hash, firstToken, stdout, stderr, exitCode,
                   pageCount, recordCounts, totalDurationRequest, totalUnmarshalDuration,
                   nextToken, elapsedRequest, page, ret, reply,
                   served, failed, lastNext, lastOmitted, emptyAt, decodedLog>>

\* Line 98: the loop is left and the aggregates are returned.
LoopExit ==
    /\ pc = "loop"
    /\ ~LoopCondition
    /\ pc' = "returned"
    /\ ret' = AllResult(pageCount, recordCounts, totalDurationRequest, totalUnmarshalDuration, NoError)
    /\ UNCHANGED <<url, hash, firstToken, stdout, stderr, exitCode,
                   pageCount, recordCounts, totalDurationRequest, totalUnmarshalDuration,
                   nextToken, elapsedRequest, page, inflight, reply,
                   fetches, served, failed, lastNext, lastOmitted, emptyAt, decodedLog>>

\* PageError returning what was accumulated so far together with the error.
PageErrorPartial ==
    /\ pc = "page"
    /\ page.err # NoError
    /\ pc' = "returned"
    /\ ret' = AllResult(pageCount, recordCounts, totalDurationRequest, totalUnmarshalDuration, page.err)
    /\ UNCHANGED <<url, hash, firstToken, stdout, stderr, exitCode,
                   pageCount, recordCounts, totalDurationRequest, totalUnmarshalDuration,
                   nextToken, elapsedRequest, page, inflight, reply,
                   fetches, served, failed, lastNext, lastOmitted, emptyAt, decodedLog>>

\* Lines 87-89: consumePage returned an error.
PageError ==
    /\ pc = "page"
    /\ page.err # NoError
    /\ pc' = "returned"
    /\ ret' = AllResult(0, <<>>, 0, 0, page.err)
    /\ UNCHANGED <<url, hash, firstToken, stdout, stderr, exitCode,
                   pageCount, recordCounts, totalDurationRequest, totalUnmarshalDuration,
                   nextToken, elapsedRequest, page, inflight, reply,
                   fetches, served, failed, lastNext, lastOmitted, emptyAt, decodedLog>>

\* Accumulate counting the pages before the append instead of incrementing.
AccumulateMiscount ==
    /\ pc = "page"
    /\ page.err = NoError
    /\ pc' = "loop"
    /\ nextToken' = page.token
    /\ pageCount' = Len(recordCounts)
    /\ recordCounts' = Append(recordCounts, page.recordCount)
    /\ totalDurationRequest' = totalDurationRequest + page.requestDuration
    /\ totalUnmarshalDuration' = totalUnmarshalDuration + page.unMarshalDuration
    /\ page' = NoPage
    /\ UNCHANGED <<url, hash, firstToken, stdout, stderr, exitCode,
                   elapsedRequest, ret, inflight, reply,
                   fetches, served, failed, lastNext, lastOmitted, emptyAt, decodedLog>>

\* Accumulate without line 91: the token is never advanced.
AccumulateStaleToken ==
    /\ pc = "page"
    /\ page.err = NoError
    /\ pc' = "loop"
    /\ nextToken' = nextToken
    /\ pageCount' = pageCount + 1
    /\ recordCounts' = Append(recordCounts, page.recordCount)
    /\ totalDurationRequest' = totalDurationRequest + page.requestDuration
    /\ totalUnmarshalDuration' = totalUnmarshalDuration + page.unMarshalDuration
    /\ page' = NoPage
    /\ UNCHANGED <<url, hash, firstToken, stdout, stderr, exitCode,
                   elapsedRequest, ret, inflight, reply,
                   fetches, served, failed, lastNext, lastOmitted, emptyAt, decodedLog>>

\* Accumulate putting the new count in front of the sequence.
AccumulatePrepend ==
    /\ pc = "page"
    /\ page.err = NoError
    /\ pc' = "loop"
    /\ nextToken' = page.token
    /\ pageCount' = pageCount + 1
    /\ recordCounts' = <<page.recordCount>> \o recordCounts
    /\ totalDurationRequest' = totalDurationRequest + page.requestDuration
    /\ totalUnmarshalDuration' = totalUnmarshalDuration + page.unMarshalDuration
    /\ page' = NoPage
    /\ UNCHANGED <<url, hash, firstToken, stdout, stderr, exitCode,
                   elapsedRequest, ret, inflight, reply,
                   fetches, served, failed, lastNext, lastOmitted, emptyAt, decodedLog>>

\* Lines 91-95: consumePage succeeded; its results are accumulated and the
\* iteration's locals go out of scope.
Accumulate ==
    /\ pc = "page"
    /\ page.err = NoError
    /\ pc' = "loop"
    /\ nextToken' = page.token
    /\ pageCount' = pageCount + 1
    /\ recordCounts' = Append(recordCounts, page.recordCount)
    /\ totalDurationRequest' = totalDurationRequest + page.requestDuration
    /\ totalUnmarshalDuration' = totalUnmarshalDuration + page.unMarshalDuration
    /\ page' = NoPage
    /\ UNCHANGED <<url, hash, firstToken, stdout, stderr, exitCode,
                   elapsedRequest, ret, inflight, reply,
                   fetches, served, failed, lastNext, lastOmitted, emptyAt, decodedLog>>

\* ------------------------------------------------------------------ the server

\* The server answers the one outstanding request.  Its result set is finite:
\* it hands out at most MaxPages pages, so the MaxPages-th answer cannot name
\* a further page.
ServerReply ==
    /\ pc = "post"
    /\ inflight # <<>>
    /\ \E r \in Replies :
        /\ served + 1 < MaxPages \/ SentNext(r) = ""
        /\ reply' = r
        /\ lastNext' = SentNext(r)
        /\ lastOmitted' = (r.kind = "http" /\ r.body.wellFormed /\ ~r.body.hasNext)
        /\ failed' = IF IsFailure(r) THEN failed + 1 ELSE failed
        /\ emptyAt' = IF emptyAt = 0 /\ ~IsFailure(r) /\ SentNext(r) = "" THEN served + 1 ELSE emptyAt
    /\ inflight' = Tail(inflight)
    /\ served' = served + 1
    /\ UNCHANGED <<pc, url, hash, firstToken, stdout, stderr, exitCode,
                   pageCount, recordCounts, totalDurationRequest, totalUnmarshalDuration,
                   nextToken, elapsedRequest, page, ret, fetches, decodedLog>>

\* ------------------------------------------------------------------ consumePage

\* Lines 59-61: http.Post returned an error; consumePage returns it.
PostError ==
    /\ pc = "post"
    /\ reply.kind = "neterr"
    /\ inflight = <<>>
    /\ pc' = "page"
    /\ page' = PageResult("", 0, 0, 0, reply.err)
    /\ reply' = NoReply
    /\ UNCHANGED <<url, hash, firstToken, stdout, stderr, exitCode,
                   pageCount, recordCounts, totalDurationRequest, totalUnmarshalDuration,
                   nextToken, elapsedRequest, ret, inflight,
                   fetches, served, failed, lastNext, lastOmitted, emptyAt, decodedLog>>

\* Line 63: http.Post returned a response; t2 is taken.
PostOk ==
    /\ pc = "post"
    /\ reply.kind = "http"
    /\ inflight = <<>>
    /\ pc' = "decode"
    /\ \E d \in Durations : elapsedRequest' = d
    /\ UNCHANGED <<url, hash, firstToken, stdout, stderr, exitCode,
                   pageCount, recordCounts, totalDurationRequest, totalUnmarshalDuration,
                   nextToken, page, ret, inflight, reply,
                   fetches, served, failed, lastNext, lastOmitted, emptyAt, decodedLog>>

\* Lines 66-69: the body does not decode; consumePage returns the error and
\* its locals go out of scope.
DecodeError ==
    /\ pc = "decode"
    /\ Decode(reply.body).err # NoError
    /\ pc' = "page"
    /\ page' = PageResult("", 0, 0, 0, Decode(reply.body).err)
    /\ reply' = NoReply
    /\ elapsedRequest' = 0
    /\ UNCHANGED <<url, hash, firstToken, stdout, stderr, exitCode,
                   pageCount, recordCounts, totalDurationRequest, totalUnmarshalDuration,
                   nextToken, ret, inflight,
                   fetches, served, failed, lastNext, lastOmitted, emptyAt, decodedLog>>

\* Lines 66, 71-73: the body decodes; t3 is taken and the results are returned.
DecodeOk ==
    /\ pc = "decode"
    /\ Decode(reply.body).err = NoError
    /\ pc' = "page"
    /\ \E d \in Durations :
         page' = PageResult(Decode(reply.body).result.Meta.NextToken,
                            Len(Decode(reply.body).result.Data.Records),
                            elapsedRequest, d, NoError)
    /\ decodedLog' = Append(decodedLog, Len(reply.body.records))
    /\ reply' = NoReply
    /\ elapsedRequest' = 0
    /\ UNCHANGED <<url, hash, firstToken, stdout, stderr, exitCode,
                   pageCount, recordCounts, totalDurationRequest, totalUnmarshalDuration,
                   nextToken, ret, inflight,
                   fetches, served, failed, lastNext, lastOmitted, emptyAt>>

\* ------------------------------------------------------------------ printConsumption

RECURSIVE SumRecordsSkipFirst(_)
\* The sum with its loop started one element late.
SumRecordsSkipFirst(counts) ==
    IF Len(counts) <= 1 THEN 0 ELSE counts[Len(counts)] + SumRecordsSkipFirst(SubSeq(counts, 1, Len(counts) - 1))

RECURSIVE SumRecords(_)
\* Lines 109-112.
SumRecords(counts) ==
    IF counts = <<>> THEN 0 ELSE Head(counts) + SumRecords(Tail(counts))

\* One fmt.Printf call: the format and the values it is given.
Line(format, args) == [format |-> format, args |-> args]

\* printConsumption without the return of line 106.
printConsumptionNoReturn(h, tok, n, counts, dReq, dUnm, e) ==
    << Line("Hash: %v, First Token: %v\n", <<h, tok>>) >>
    \o (IF e # NoError THEN << Line("Error: %v\n", <<e>>) >> ELSE <<>>)
    \o << Line("  Pages: %v\n", <<n>>),
           Line("  Records: %v\n", <<SumRecords(counts)>>),
           Line("  Duration to retrieve pages: %v\n", <<dReq>>),
           Line("  Duration to unmarshal pages: %v\n", <<dUnm>>) >>

\* Lines 103-117.
printConsumption(h, tok, n, counts, dReq, dUnm, e) ==
    IF e # NoError
    THEN << Line("Hash: %v, First Token: %v\n", <<h, tok>>),
            Line("Error: %v\n", <<e>>) >>
    ELSE << Line("Hash: %v, First Token: %v\n", <<h, tok>>),
            Line("  Pages: %v\n", <<n>>),
            Line("  Records: %v\n", <<SumRecords(counts)>>),
            Line("  Duration to retrieve pages: %v\n", <<dReq>>),
            Line("  Duration to unmarshal pages: %v\n", <<dUnm>>) >>

\* Line 134: main prints what consumeAllPages returned, and ends.
Report ==
    /\ pc = "returned"
    /\ pc' = "exited"
    /\ stdout' = stdout \o printConsumption(hash, firstToken, ret.pageCount, ret.recordCounts,
                                            ret.totalDurationRequest, ret.totalUnmarshalDuration,
                                            ret.err)
    /\ UNCHANGED <<url, hash, firstToken, stderr, exitCode,
                   pageCount, recordCounts, totalDurationRequest, totalUnmarshalDuration,
                   nextToken, elapsedRequest, page, ret, inflight, reply,
                   fetches, served, failed, lastNext, lastOmitted, emptyAt, decodedLog>>

\* ------------------------------------------------------------------ specifications

ConsumeStep ==
    \/ IssuePost
    \/ LoopExit
    \/ PageError
    \/ Accumulate
    \/ ServerReply
    \/ PostError
    \/ PostOk
    \/ DecodeError
    \/ DecodeOk

\* The whole program.
Next ==
    \/ MainFatal
    \/ MainCall
    \/ ConsumeStep
    \/ Report

Spec == Init /\ [][Next]_vars

\* consumeAllPages on its own, called with any three strings.
ConsumeSpec == InitConsume /\ [][ConsumeStep]_vars

\* The whole program, with every statement of the single thread eventually
\* executed and every request eventually answered.
LiveSpec == Init /\ [][Next]_vars /\ WF_vars(Next)

\* ------------------------------------------------------------------ properties

\* C1: when no answer failed and the N-th answer is the first to carry an
\* empty next token, exactly N fetches are ever issued and answered, and
\* consumeAllPages returns no error, pageCount = N and N record counts.
C1_AllPagesCounted ==
    (failed = 0 /\ emptyAt >= 1) =>
        /\ fetches = emptyAt
        /\ served = emptyAt
        /\ pc = "returned" =>
              /\ ret.err = NoError
              /\ ret.pageCount = emptyAt
              /\ Len(ret.recordCounts) = emptyAt

C1_Witness ==
    /\ pc = "returned"
    /\ failed = 0
    /\ emptyAt = 3
    /\ ret.pageCount = 3
    /\ Len(ret.recordCounts) = 3

\* C2: a failing fetch makes consumeAllPages return at its next step with
\* that fetch's error and zero/empty aggregates, whatever was accumulated;
\* at most one fetch ever fails (no retry) and none is issued after it.
C2_Returned ==
    /\ failed <= 1
    /\ failed = 1 => fetches = served
    /\ (pc = "returned" /\ failed = 1) =>
          /\ ret.err # NoError
          /\ ret.err = page.err
          /\ ret.pageCount = 0
          /\ ret.recordCounts = <<>>
          /\ ret.totalDurationRequest = 0
          /\ ret.totalUnmarshalDuration = 0
C2_Step ==
    (pc = "page" /\ page.err # NoError) =>
        /\ pc' = "returned"
        /\ ret'.err = page.err
        /\ fetches' = fetches
C2_FailureAbandonsAll == [](C2_Returned) /\ [][C2_Step]_vars

C2_Witness ==
    /\ pc = "returned"
    /\ failed = 1
    /\ pageCount = 2
    /\ recordCounts # <<>>
    /\ totalDurationRequest > 0
    /\ ret.pageCount = 0
    /\ ret.err # NoError

\* C3: called with an empty firstToken, consumeAllPages issues no fetch and
\* returns pageCount 0, no record counts, zero durations and no error.
C3_EmptyFirstToken ==
    firstToken = "" =>
        /\ fetches = 0
        /\ inflight = <<>>
        /\ pc \in {"loop", "returned"}
        /\ pc = "returned" => ret = AllResult(0, <<>>, 0, 0, NoError)

C3_Witness ==
    /\ firstToken = ""
    /\ pc = "returned"
    /\ ret.pageCount = 0
    /\ ret.err = NoError

\* C4: started with an empty url, hash or token, the program writes
\* "invalid arguments", exits with a nonzero status, and never issues a page
\* request nor prints a report; a request is issued only when all three are
\* non-empty.
C4_InvalidArguments ==
    /\ (url = "" \/ hash = "" \/ firstToken = "") =>
          /\ fetches = 0
          /\ inflight = <<>>
          /\ stdout = <<>>
          /\ pc \in {"main", "exited"}
          /\ pc = "exited" => (stderr = <<"invalid arguments">> /\ exitCode = 1)
    /\ (fetches > 0 \/ inflight # <<>>) => (url # "" /\ hash # "" /\ firstToken # "")

C4_Witness ==
    /\ pc = "exited"
    /\ url # ""
    /\ hash = ""
    /\ firstToken # ""
    /\ exitCode = 1
    /\ stderr = <<"invalid arguments">>

\* C5: the report starts with the hash / first token line; with an error the
\* only other line is the error line, without one exactly the four metric
\* lines follow, in the order pages, records, retrieve, unmarshal.
Formats(out) == [i \in 1..Len(out) |-> out[i].format]
C5_ReportShape ==
    /\ (pc = "exited" /\ url # "" /\ hash # "" /\ firstToken # "") => stdout # <<>>
    /\ stdout # <<>> =>
          /\ pc = "exited"
          /\ stdout[1] = Line("Hash: %v, First Token: %v\n", <<hash, firstToken>>)
          /\ IF ret.err # NoError
             THEN /\ Formats(stdout) = << "Hash: %v, First Token: %v\n", "Error: %v\n" >>
                  /\ stdout[2].args = <<ret.err>>
             ELSE Formats(stdout) = << "Hash: %v, First Token: %v\n",
                                       "  Pages: %v\n",
                                       "  Records: %v\n",
                                       "  Duration to retrieve pages: %v\n",
                                       "  Duration to unmarshal pages: %v\n" >>

C5_Witness ==
    /\ pc = "exited"
    /\ pageCount = 1
    /\ ret.err # NoError
    /\ Len(stdout) = 2
    /\ stdout[2].format = "Error: %v\n"

\* C6: on a successful run the number printed on the records line is the sum,
\* over the pages fetched, of the number of records decoded from each page,
\* which is the sum of the record counts consumeAllPages returned.
RECURSIVE TotalUpTo(_, _)
TotalUpTo(seq, i) == IF i = 0 THEN 0 ELSE seq[i] + TotalUpTo(seq, i - 1)
C6_RecordsTotal ==
    (pc = "exited" /\ stdout # <<>> /\ ret.err = NoError) =>
        /\ Len(stdout) >= 3
        /\ stdout[3].format = "  Records: %v\n"
        /\ stdout[3].args = << TotalUpTo(decodedLog, Len(decodedLog)) >>
        /\ stdout[3].args = << TotalUpTo(ret.recordCounts, Len(ret.recordCounts)) >>

C6_Witness ==
    /\ pc = "exited"
    /\ ret.err = NoError
    /\ decodedLog = <<1, 0, 1>>
    /\ Len(stdout) = 5
    /\ stdout[3].args = <<2>>

\* C7: at most one request is in flight; a fetch is issued only when every
\* earlier fetch has been answered and decoded, it goes to url/page with the
\* caller's hash, and it carries firstToken (first fetch) or exactly the next
\* token of the previous answer (later fetches).
C7_OneInFlight == Len(inflight) <= 1
C7_FetchStep ==
    fetches' # fetches =>
        /\ fetches' = fetches + 1
        /\ inflight = <<>>
        /\ served = fetches
        /\ Len(decodedLog) = fetches
        /\ inflight' = << [path |-> url \o "/page",
                           contentType |-> "application/json",
                           body |-> [hash |-> hash,
                                     token |-> IF fetches = 0 THEN firstToken ELSE lastNext]] >>
C7_SequentialChained == [](C7_OneInFlight) /\ [][C7_FetchStep]_vars

C7_Witness ==
    /\ fetches = 2
    /\ firstToken = "abc"
    /\ Len(inflight) = 1
    /\ inflight[1].body.token = "xyz"
    /\ inflight[1].body.hash = hash

\* C8: while consumeAllPages runs, recordCounts holds the record counts of
\* the pages decoded so far in fetch order and has length pageCount; a step
\* that counts a page appends that page's count and adds that page's two
\* durations, and no other step touches the aggregates; a successful return
\* hands back exactly these.
C8_Counts ==
    /\ Len(recordCounts) = pageCount
    /\ pageCount <= Len(decodedLog)
    /\ Len(decodedLog) <= pageCount + 1
    /\ recordCounts = SubSeq(decodedLog, 1, pageCount)
    /\ (pc = "returned" /\ ret.err = NoError) =>
          /\ ret.pageCount = Len(decodedLog)
          /\ ret.recordCounts = decodedLog
          /\ ret.totalDurationRequest = totalDurationRequest
          /\ ret.totalUnmarshalDuration = totalUnmarshalDuration
C8_Step ==
    IF pageCount' # pageCount
    THEN /\ pageCount' = pageCount + 1
         /\ recordCounts' = Append(recordCounts, page.recordCount)
         /\ page.recordCount = decodedLog[Len(decodedLog)]
         /\ totalDurationRequest' = totalDurationRequest + page.requestDuration
         /\ totalUnmarshalDuration' = totalUnmarshalDuration + page.unMarshalDuration
    ELSE /\ recordCounts' = recordCounts
         /\ totalDurationRequest' = totalDurationRequest
         /\ totalUnmarshalDuration' = totalUnmarshalDuration
C8_AppendOnly == [](C8_Counts) /\ [][C8_Step]_vars

C8_Witness ==
    /\ pc = "returned"
    /\ decodedLog = <<0, 1, 1>>
    /\ ret.pageCount = 3
    /\ ret.recordCounts = <<0, 1, 1>>
    /\ ret.totalDurationRequest = 3
    /\ ret.totalUnmarshalDuration = 1

\* C9: no request is ever issued with an empty token, and the first decoded
\* answer with an empty next token (sent empty or left out) is the last one
\* fetched: no fetch follows it and consumeAllPages returns without error.
C9_EmptyTokenSentinel ==
    /\ \A i \in 1..Len(inflight) : inflight[i].body.token # ""
    /\ emptyAt >= 1 =>
          /\ fetches = emptyAt
          /\ failed = 0
          /\ pc \in {"post", "decode", "page", "loop", "returned"}
          /\ pc = "loop" => nextToken = ""
          /\ pc = "returned" => ret.err = NoError

C9_Witness ==
    /\ pc = "returned"
    /\ lastOmitted
    /\ emptyAt = 2
    /\ fetches = 2
    /\ ret.err = NoError

\* C10: with valid arguments the program returns from consumeAllPages only
\* after an answer failed or carried an empty next token, and once such an
\* answer was given the report is eventually printed; as long as the latest
\* answer names a further page the only thing the loop does is fetch it,
\* however many pages were read and whether or not the token was seen before.
Terminating == failed > 0 \/ emptyAt > 0
C10_OnlyServerEnds ==
    /\ (pc \in {"returned", "exited"} /\ url # "" /\ hash # "" /\ firstToken # "") => Terminating
    /\ (pc = "loop" /\ ~Terminating) => (ENABLED IssuePost /\ ~ENABLED LoopExit)
C10_TerminationByServer ==
    /\ [](C10_OnlyServerEnds)
    /\ (Terminating ~> (pc = "exited" /\ stdout # <<>>))

C10_Witness ==
    /\ pc = "post"
    /\ fetches = 3
    /\ firstToken = "abc"
    /\ lastNext = "abc"
    /\ pageCount = 2
    /\ ~Terminating

====
